---- MODULE Spec2Model ----
(***************************************************************************)
(* The analysis request pipeline of ChainBreak AI                          *)
(* (src/app/api/analyze/route.ts): configuration check, input validation,  *)
(* the primary and the repair call to the model backend, JSON resolution,  *)
(* and the redaction pass over the serialized result.                      *)
(*                                                                         *)
(* A JavaScript string is a sequence of one-character strings, so that     *)
(* serialization, the keyword regular expressions and re-parsing work on   *)
(* characters.  The request's text fields, whose lengths matter up to      *)
(* 25,000, are run-length encoded: a sequence of runs [ch, n].             *)
(***************************************************************************)
EXTENDS Integers, Sequences, FiniteSets, TLC

(***************************************************************************)
(* Bounds of the model.                                                    *)
(***************************************************************************)
\* Request sizes range over MAX_TOTAL_CHARS - MaxOver .. MAX_TOTAL_CHARS + MaxOver.
MaxOver == 1
\* A generated string value repeats a keyword 1..MaxRepeat times.
MaxRepeat == 2
\* Whitespace characters the backend may put before and after its text: 0..MaxPad.
MaxPad == 1
\* runAnalysis invocations the page model lets be out at the same time.
MaxInvocations == 2

(***************************************************************************)
(* Characters.                                                             *)
(***************************************************************************)
QUOTE == "\""
BACKSLASH == "\\"
LF == "\n"
CR == "\r"
TAB == "\t"
\* U+0060, the character of a Markdown fence.
GRAVE == "U+0060"
BACKSPACE == "U+0008"
FORM_FEED == "U+000C"
\* U+000E, a control character JSON.stringify writes as \u000e.
SHIFT_OUT == "U+000E"

\* ECMAScript WhiteSpace and LineTerminator code points, as trim() strips them.
WhiteSpaceChars == {" ", LF, CR, TAB}

\* Line terminators: what "." of a regular expression does not match.
LineTerminators == {LF, CR}

LowerLetters ==
  << "a", "b", "c", "d", "e", "f", "g", "h", "i", "j", "k", "l", "m",
     "n", "o", "p", "q", "r", "s", "t", "u", "v", "w", "x", "y", "z" >>

UpperLetters ==
  << "A", "B", "C", "D", "E", "F", "G", "H", "I", "J", "K", "L", "M",
     "N", "O", "P", "Q", "R", "S", "T", "U", "V", "W", "X", "Y", "Z" >>

\* Canonicalize of the "i" flag (no "u" flag): the character's upper case.
Canonicalize(c) ==
  IF \E i \in 1..26 : LowerLetters[i] = c
  THEN UpperLetters[CHOOSE i \in 1..26 : LowerLetters[i] = c]
  ELSE c

RECURSIVE Concat(_)
\* Array.prototype.join(""): the concatenation of a sequence of strings.
Concat(ss) ==
  IF ss = << >> THEN << >> ELSE Head(ss) \o Concat(Tail(ss))

RECURSIVE TrimStart(_)
TrimStart(s) ==
  IF s # << >> /\ Head(s) \in WhiteSpaceChars THEN TrimStart(Tail(s)) ELSE s

RECURSIVE TrimEnd(_)
TrimEnd(s) ==
  IF s # << >> /\ s[Len(s)] \in WhiteSpaceChars
  THEN TrimEnd(SubSeq(s, 1, Len(s) - 1))
  ELSE s

\* String.prototype.trim on a character sequence.
Trim(s) == TrimEnd(TrimStart(s))

(***************************************************************************)
(* The redaction list and its regular expressions.                         *)
(***************************************************************************)
MAX_TOTAL_CHARS == 25000

EXPLOIT_KEYWORDS ==
  << << "p", "a", "y", "l", "o", "a", "d" >>,
     << "r", "e", "v", "e", "r", "s", "e", " ", "s", "h", "e", "l", "l" >>,
     << "m", "e", "t", "a", "s", "p", "l", "o", "i", "t" >>,
     << "s", "q", "l", "m", "a", "p" >>,
     << "e", "x", "p", "l", "o", "i", "t" >>,
     << "s", "h", "e", "l", "l", "c", "o", "d", "e" >>,
     << "c", "m", "d", ".", "e", "x", "e" >>,
     << "p", "o", "w", "e", "r", "s", "h", "e", "l", "l", " ", "-", "e", "n", "c" >>,
     << "d", "r", "o", "p", "p", "e", "r" >> >>

REDACTED == << "[", "r", "e", "d", "a", "c", "t", "e", "d", "]" >>

\* One pattern character of new RegExp(keyword, "gi") against one text
\* character: the keyword is the pattern source, so "." is the wildcard.
PatternCharMatches(p, c) ==
  IF p = "." THEN c \notin LineTerminators
  ELSE Canonicalize(p) = Canonicalize(c)

\* The regular expression matches text at position i.
MatchAt(keyword, text, i) ==
  /\ i + Len(keyword) - 1 <= Len(text)
  /\ \A k \in 1..Len(keyword) : PatternCharMatches(keyword[k], text[i + k - 1])

\* regex.test(text)
RegexTest(keyword, text) ==
  \E i \in 1..Len(text) : MatchAt(keyword, text, i)

\* The position of the leftmost match at or after position i, the position
\* after the text when there is none.
NextMatch(keyword, text, i) ==
  LET matches == { j \in i..Len(text) : MatchAt(keyword, text, j) }
  IN IF matches = { } THEN Len(text) + 1
     ELSE CHOOSE j \in matches : \A k \in matches : j <= k

RECURSIVE ReplaceFromDeleting(_, _, _)
\* ReplaceFrom as if a match were replaced by the empty string.
ReplaceFromDeleting(keyword, text, i) ==
  IF i > Len(text) THEN << >>
  ELSE IF MatchAt(keyword, text, i)
       THEN ReplaceFromDeleting(keyword, text, i + Len(keyword))
       ELSE LET j == NextMatch(keyword, text, i)
            IN SubSeq(text, i, j - 1) \o ReplaceFromDeleting(keyword, text, j)

RECURSIVE ReplaceFrom(_, _, _)
\* text.replace(regex, "[redacted]") with the "g" flag, from position i on:
\* leftmost matches, not overlapping; the text between two matches is kept.
ReplaceFrom(keyword, text, i) ==
  IF i > Len(text) THEN << >>
  ELSE IF MatchAt(keyword, text, i)
       THEN REDACTED \o ReplaceFrom(keyword, text, i + Len(keyword))
       ELSE LET j == NextMatch(keyword, text, i)
            IN SubSeq(text, i, j - 1) \o ReplaceFrom(keyword, text, j)

RegexReplace(keyword, text) == ReplaceFrom(keyword, text, 1)

RECURSIVE SanitizeLoop(_, _, _)
\* The for loop of sanitizeOutput from keyword k on.
SanitizeLoop(k, sanitized, redacted) ==
  IF k > Len(EXPLOIT_KEYWORDS) THEN [sanitized |-> sanitized, redacted |-> redacted]
  ELSE IF RegexTest(EXPLOIT_KEYWORDS[k], sanitized)
       THEN SanitizeLoop(k + 1, RegexReplace(EXPLOIT_KEYWORDS[k], sanitized), TRUE)
       ELSE SanitizeLoop(k + 1, sanitized, redacted)

sanitizeOutput(jsonString) == SanitizeLoop(1, jsonString, FALSE)

(***************************************************************************)
(* JSON values: what JSON.parse returns and JSON.stringify takes.          *)
(* An object is the sequence of its members in property order.             *)
(***************************************************************************)
JNull == [t |-> "null"]

JBool(b) == [t |-> "boolean", b |-> b]

JNum(n) == [t |-> "number", n |-> n]

JStr(s) == [t |-> "string", s |-> s]

JArr(items) == [t |-> "array", items |-> items]

JObj(members) == [t |-> "object", members |-> members]

Member(k, v) == [k |-> k, v |-> v]

HasKey(members, k) == \E i \in 1..Len(members) : members[i].k = k

\* obj[k] = v on an object: an existing property keeps its place, a new one
\* goes last.
ObjPut(members, k, v) ==
  IF HasKey(members, k)
  THEN [i \in 1..Len(members) |->
          IF members[i].k = k THEN Member(k, v) ELSE members[i]]
  ELSE Append(members, Member(k, v))

\* obj[k] of an object value; JNull stands for undefined, told apart by HasKey.
ObjGet(members, k) ==
  IF HasKey(members, k)
  THEN members[CHOOSE i \in 1..Len(members) : members[i].k = k].v
  ELSE JNull

DigitChars == << "0", "1", "2", "3", "4", "5", "6", "7", "8", "9" >>

RECURSIVE NatToChars(_)
NatToChars(n) ==
  IF n < 10 THEN << DigitChars[n + 1] >>
  ELSE NatToChars(n \div 10) \o << DigitChars[(n % 10) + 1] >>

\* Number::toString of an integer.
NumToChars(n) == IF n < 0 THEN << "-" >> \o NatToChars(-n) ELSE NatToChars(n)

\* QuoteJSONString's escape of one character.
EscapeChar(c) ==
  CASE c = QUOTE -> << BACKSLASH, QUOTE >>
    [] c = BACKSLASH -> << BACKSLASH, BACKSLASH >>
    [] c = LF -> << BACKSLASH, "n" >>
    [] c = CR -> << BACKSLASH, "r" >>
    [] c = TAB -> << BACKSLASH, "t" >>
    [] c = BACKSPACE -> << BACKSLASH, "b" >>
    [] c = FORM_FEED -> << BACKSLASH, "f" >>
    [] c = SHIFT_OUT -> << BACKSLASH, "u", "0", "0", "0", "e" >>
    [] OTHER -> << c >>

RECURSIVE EscapeChars(_)
\* QuoteJSONString's escape of a string: the characters up to the first one
\* that is escaped stand for themselves.
EscapeChars(s) ==
  LET escaped == { j \in 1..Len(s) : EscapeChar(s[j]) # << s[j] >> }
  IN IF escaped = { } THEN s
     ELSE LET j == CHOOSE j \in escaped : \A k \in escaped : j <= k
          IN SubSeq(s, 1, j - 1) \o EscapeChar(s[j]) \o
             EscapeChars(SubSeq(s, j + 1, Len(s)))

\* QuoteJSONString
QuoteJSONString(s) == << QUOTE >> \o EscapeChars(s) \o << QUOTE >>

RECURSIVE Spaces(_)
Spaces(n) == IF n = 0 THEN << >> ELSE << " " >> \o Spaces(n - 1)

RECURSIVE Stringify(_, _, _)
RECURSIVE StringifyItems(_, _, _, _)
RECURSIVE StringifyMembers(_, _, _, _)
\* The items of a non-empty array from item i on; with a gap, each on its
\* own line.
StringifyItems(items, i, gap, indent) ==
  Spaces(indent) \o Stringify(items[i], gap, indent) \o
  (IF i = Len(items) THEN (IF gap = 0 THEN << >> ELSE << LF >>)
   ELSE (IF gap = 0 THEN << "," >> ELSE << ",", LF >>) \o
        StringifyItems(items, i + 1, gap, indent))

\* The members of a non-empty object from member i on: "key": value with a
\* gap, "key":value without.
StringifyMembers(members, i, gap, indent) ==
  Spaces(indent) \o QuoteJSONString(members[i].k) \o
  (IF gap = 0 THEN << ":" >> ELSE << ":", " " >>) \o
  Stringify(members[i].v, gap, indent) \o
  (IF i = Len(members) THEN (IF gap = 0 THEN << >> ELSE << LF >>)
   ELSE (IF gap = 0 THEN << "," >> ELSE << ",", LF >>) \o
        StringifyMembers(members, i + 1, gap, indent))

\* JSON.stringify(value, null, gap) of a value nested at the given
\* indentation (SerializeJSONProperty).
Stringify(v, gap, indent) ==
  CASE v.t = "null" -> << "n", "u", "l", "l" >>
    [] v.t = "boolean" ->
         IF v.b THEN << "t", "r", "u", "e" >> ELSE << "f", "a", "l", "s", "e" >>
    [] v.t = "number" -> NumToChars(v.n)
    [] v.t = "string" -> QuoteJSONString(v.s)
    [] v.t = "array" ->
         IF v.items = << >> THEN << "[", "]" >>
         ELSE (IF gap = 0 THEN << "[" >> ELSE << "[", LF >>) \o
              StringifyItems(v.items, 1, gap, indent + gap) \o
              Spaces(indent) \o << "]" >>
    [] v.t = "object" ->
         IF v.members = << >> THEN << "{", "}" >>
         ELSE (IF gap = 0 THEN << "{" >> ELSE << "{", LF >>) \o
              StringifyMembers(v.members, 1, gap, indent + gap) \o
              Spaces(indent) \o << "}" >>

\* JSON.stringify(parsed, null, 2)
JSONStringify(v) == Stringify(v, 2, 0)

(***************************************************************************)
(* JSON.parse on a character sequence: a recursive-descent reading of the  *)
(* JSON grammar (integers only among the numbers).  A result is            *)
(* [ok, v, pos]: pos is the position after what was read.                  *)
(***************************************************************************)
JSONWhiteSpace == {" ", LF, CR, TAB}

\* Characters that may not appear raw inside a JSON string (below U+0020).
ControlChars == {LF, CR, TAB, BACKSPACE, FORM_FEED, SHIFT_OUT}

HexChars ==
  { "0", "1", "2", "3", "4", "5", "6", "7", "8", "9",
    "a", "b", "c", "d", "e", "f", "A", "B", "C", "D", "E", "F" }

ParseFail == [ok |-> FALSE, v |-> JNull, pos |-> 0]

ParseOk(v, pos) == [ok |-> TRUE, v |-> v, pos |-> pos]

RECURSIVE SkipWs(_, _)
SkipWs(text, i) ==
  IF i <= Len(text) /\ text[i] \in JSONWhiteSpace THEN SkipWs(text, i + 1) ELSE i

\* The text has the given word at position i.
HasWordAt(text, i, word) ==
  /\ i + Len(word) - 1 <= Len(text)
  /\ SubSeq(text, i, i + Len(word) - 1) = word

\* The character of a \uXXXX escape: U+000E and U+0022 are told apart, any
\* other code point is one more ordinary character.
UnicodeChar(hex) ==
  CASE hex \in { << "0", "0", "0", "e" >>, << "0", "0", "0", "E" >> } -> SHIFT_OUT
    [] hex = << "0", "0", "2", "2" >> -> QUOTE
    [] OTHER -> "U+XXXX"

\* The character of a one-letter escape, "" when the letter is no escape.
SimpleEscape(e) ==
  CASE e = QUOTE -> QUOTE
    [] e = BACKSLASH -> BACKSLASH
    [] e = "/" -> "/"
    [] e = "n" -> LF
    [] e = "r" -> CR
    [] e = "t" -> TAB
    [] e = "b" -> BACKSPACE
    [] e = "f" -> FORM_FEED
    [] OTHER -> ""

RECURSIVE NextStringEvent(_, _)
\* The first position from i on that holds a character a string literal
\* cannot contain as it stands (its closing quote, a backslash or a control
\* character), Len(text) + 1 when there is none.
NextStringEvent(text, i) ==
  IF i > Len(text) \/ text[i] \in { QUOTE, BACKSLASH } \cup ControlChars
  THEN i
  ELSE NextStringEvent(text, i + 1)

RECURSIVE ParseChars(_, _, _)
\* The rest of a string literal whose characters from i to j - 1 stand for
\* themselves and follow the characters acc: position j ends the literal,
\* begins an escape or makes the literal invalid.
ParseCharsTo(text, i, j, acc) ==
  IF j > Len(text) THEN ParseFail
  ELSE IF text[j] = QUOTE
       THEN ParseOk(JStr(acc \o SubSeq(text, i, j - 1)), j + 1)
  ELSE IF text[j] \in ControlChars THEN ParseFail
  ELSE IF j + 1 > Len(text) THEN ParseFail
  ELSE IF text[j + 1] = "u"
       THEN IF /\ j + 5 <= Len(text)
               /\ \A k \in (j + 2)..(j + 5) : text[k] \in HexChars
            THEN ParseChars(text, j + 6,
                            acc \o SubSeq(text, i, j - 1) \o
                            << UnicodeChar(SubSeq(text, j + 2, j + 5)) >>)
            ELSE ParseFail
  ELSE IF SimpleEscape(text[j + 1]) # ""
       THEN ParseChars(text, j + 2,
                       acc \o SubSeq(text, i, j - 1) \o
                       << SimpleEscape(text[j + 1]) >>)
       ELSE ParseFail

\* The characters of a string literal from position i (after the opening
\* quote) to its closing quote, acc the characters read so far.
ParseChars(text, i, acc) ==
  ParseCharsTo(text, i, NextStringEvent(text, i), acc)

IsDigit(c) == \E d \in 1..10 : DigitChars[d] = c

DigitValue(c) == (CHOOSE d \in 1..10 : DigitChars[d] = c) - 1

RECURSIVE ParseDigits(_, _, _)
\* The digits of an integer from position i on, acc the value read so far.
ParseDigits(text, i, acc) ==
  IF i <= Len(text) /\ IsDigit(text[i])
  THEN ParseDigits(text, i + 1, 10 * acc + DigitValue(text[i]))
  ELSE ParseOk(JNum(acc), i)

\* A JSON number at position i: -? (0 | [1-9][0-9]*), no fraction or exponent.
ParseNumber(text, i) ==
  LET neg == text[i] = "-"
      j == IF neg THEN i + 1 ELSE i
  IN IF j > Len(text) \/ ~IsDigit(text[j]) THEN ParseFail
     ELSE IF text[j] = "0"
          THEN IF j + 1 <= Len(text) /\ (IsDigit(text[j + 1]) \/ text[j + 1] \in {".", "e", "E"})
               THEN ParseFail
               ELSE ParseOk(JNum(0), j + 1)
     ELSE LET r == ParseDigits(text, j, 0)
          IN IF r.pos <= Len(text) /\ text[r.pos] \in {".", "e", "E"} THEN ParseFail
             ELSE ParseOk(JNum(IF neg THEN 0 - r.v.n ELSE r.v.n), r.pos)

RECURSIVE ParseValue(_, _)
RECURSIVE ParseItems(_, _, _)
RECURSIVE ParseMembers(_, _, _)
\* The items of an array from position i (at an item) to the closing bracket.
ParseItems(text, i, acc) ==
  LET r == ParseValue(text, i)
      j == SkipWs(text, r.pos)
  IN IF ~r.ok \/ j > Len(text) THEN ParseFail
     ELSE IF text[j] = "," THEN ParseItems(text, j + 1, Append(acc, r.v))
     ELSE IF text[j] = "]" THEN ParseOk(JArr(Append(acc, r.v)), j + 1)
     ELSE ParseFail

\* The members of an object from position i (before a key) to the closing
\* brace; a repeated key overwrites the earlier value.
ParseMembers(text, i, acc) ==
  LET ki == SkipWs(text, i)
      k == IF ki <= Len(text) /\ text[ki] = QUOTE
           THEN ParseChars(text, ki + 1, << >>) ELSE ParseFail
      ci == SkipWs(text, k.pos)
      r == IF k.ok /\ ci <= Len(text) /\ text[ci] = ":"
           THEN ParseValue(text, ci + 1) ELSE ParseFail
      j == SkipWs(text, r.pos)
  IN IF ~r.ok \/ j > Len(text) THEN ParseFail
     ELSE IF text[j] = "," THEN ParseMembers(text, j + 1, ObjPut(acc, k.v.s, r.v))
     ELSE IF text[j] = "}" THEN ParseOk(JObj(ObjPut(acc, k.v.s, r.v)), j + 1)
     ELSE ParseFail

\* One JSON value at position i, leading white space skipped.
ParseValue(text, i) ==
  LET j == SkipWs(text, i)
  IN IF j > Len(text) THEN ParseFail
     ELSE IF text[j] = QUOTE THEN ParseChars(text, j + 1, << >>)
     ELSE IF text[j] = "[" 
          THEN LET e == SkipWs(text, j + 1)
               IN IF e <= Len(text) /\ text[e] = "]" THEN ParseOk(JArr(<< >>), e + 1)
                  ELSE ParseItems(text, j + 1, << >>)
     ELSE IF text[j] = "{"
          THEN LET e == SkipWs(text, j + 1)
               IN IF e <= Len(text) /\ text[e] = "}" THEN ParseOk(JObj(<< >>), e + 1)
                  ELSE ParseMembers(text, j + 1, << >>)
     ELSE IF HasWordAt(text, j, << "n", "u", "l", "l" >>) THEN ParseOk(JNull, j + 4)
     ELSE IF HasWordAt(text, j, << "t", "r", "u", "e" >>) THEN ParseOk(JBool(TRUE), j + 4)
     ELSE IF HasWordAt(text, j, << "f", "a", "l", "s", "e" >>)
          THEN ParseOk(JBool(FALSE), j + 5)
     ELSE IF text[j] = "-" \/ IsDigit(text[j]) THEN ParseNumber(text, j)
     ELSE ParseFail

\* JSON.parse(text): ok is FALSE where JSON.parse throws a SyntaxError.
JSONParse(text) ==
  LET r == ParseValue(text, 1)
  IN IF r.ok /\ SkipWs(text, r.pos) > Len(text) THEN r ELSE ParseFail

(***************************************************************************)
(* The request body.  A text field is a JavaScript value: undefined, null, *)
(* a number or a string; a string is run-length encoded as a sequence of   *)
(* runs [ch, n] (n > 0 repetitions of ch).                                 *)
(***************************************************************************)
Undefined == [kind |-> "undefined"]

JSNull == [kind |-> "null"]

JSNumber(n) == [kind |-> "number", n |-> n]

JSString(runs) == [kind |-> "string", runs |-> runs]

Run(ch, n) == [ch |-> ch, n |-> n]

RECURSIVE RunsLength(_)
\* String.prototype.length of a run-length encoded string.
RunsLength(runs) ==
  IF runs = << >> THEN 0 ELSE Head(runs).n + RunsLength(Tail(runs))

RECURSIVE TrimRunsStart(_)
TrimRunsStart(runs) ==
  IF runs # << >> /\ Head(runs).ch \in WhiteSpaceChars
  THEN TrimRunsStart(Tail(runs))
  ELSE runs

RECURSIVE TrimRunsEnd(_)
TrimRunsEnd(runs) ==
  IF runs # << >> /\ runs[Len(runs)].ch \in WhiteSpaceChars
  THEN TrimRunsEnd(SubSeq(runs, 1, Len(runs) - 1))
  ELSE runs

\* TrimRuns as if the check read system_text.length without trim().
TrimRunsSkipped(runs) == runs

\* String.prototype.trim of a run-length encoded string.
TrimRuns(runs) == TrimRunsEnd(TrimRunsStart(runs))

\* ToBoolean of a field value, as the ! operator applies it.
Truthy(v) ==
  CASE v.kind = "string" -> v.runs # << >>
    [] v.kind = "number" -> v.n # 0
    [] OTHER -> FALSE

\* value?.length ?? 0 of an optional field: a number has no length.
LengthOrZero(v) == IF v.kind = "string" THEN RunsLength(v.runs) ELSE 0

\* input.snippets?.<name> of a body.
Snippet(input, name) ==
  IF input.snippets.kind = "object" THEN input.snippets[name] ELSE Undefined

\* totalInputLength as if the code snippet were left out of the sum.
totalInputLengthWithoutCode(input) ==
  RunsLength(input.system_text.runs) +
  LengthOrZero(input.diagram_summary) +
  LengthOrZero(Snippet(input, "config")) +
  LengthOrZero(Snippet(input, "logs"))

totalInputLength(input) ==
  RunsLength(input.system_text.runs) +
  LengthOrZero(input.diagram_summary) +
  LengthOrZero(Snippet(input, "config")) +
  LengthOrZero(Snippet(input, "logs")) +
  LengthOrZero(Snippet(input, "code"))

\* value ?? fallback inside a template literal: the interpolated string.
OrElse(v, fallback) == IF v.kind \in {"undefined", "null"} THEN fallback ELSE v.runs

\* The user prompt as the segments the template literal interpolates.
buildUserPrompt(input) ==
  << [label |-> "system_text:", text |-> input.system_text.runs],
     [label |-> "diagram_summary:", text |-> OrElse(input.diagram_summary, << >>)],
     [label |-> "config:", text |-> OrElse(Snippet(input, "config"), << >>)],
     [label |-> "logs:", text |-> OrElse(Snippet(input, "logs"), << >>)],
     [label |-> "code:", text |-> OrElse(Snippet(input, "code"), << >>)],
     [label |-> "what_if:",
      text |-> OrElse(input.what_if,
                      << Run("N", 1), Run("O", 1), Run("N", 1), Run("E", 1) >>)] >>

(***************************************************************************)
(* The model backend's answer to one fetch, and extractText.  An optional  *)
(* property is a sequence of length 0 (absent) or 1.                       *)
(***************************************************************************)
\* fetch rejects: the network call cannot be completed.
FetchRejected == [kind |-> "rejected", status |-> 0, text |-> << >>, candidates |-> << >>]

\* A response whose ok is false, with its status and body text.
HttpFailure(status, text) ==
  [kind |-> "failure", status |-> status, text |-> text, candidates |-> << >>]

\* An ok response whose body is not JSON: response.json() rejects.
HttpOkNotJson == [kind |-> "notjson", status |-> 200, text |-> << >>, candidates |-> << >>]

\* An ok response with a GeminiResponse body.
HttpOk(candidates) ==
  [kind |-> "ok", status |-> 200, text |-> << >>, candidates |-> candidates]

Candidate(content) == [content |-> content]

Content(parts) == [parts |-> parts]

Part(text) == [text |-> text]

\* parts.map((part) => part.text ?? "")
PartTexts(parts) ==
  [i \in 1..Len(parts) |-> IF parts[i].text = << >> THEN << >> ELSE parts[i].text[1]]

extractText(response) ==
  IF response.candidates = << >> THEN << >>
  ELSE IF response.candidates[1] = << >> THEN << >>
  ELSE IF response.candidates[1][1].content = << >> THEN << >>
  ELSE IF response.candidates[1][1].content[1].parts = << >> THEN << >>
  ELSE Trim(Concat(PartTexts(response.candidates[1][1].content[1].parts[1])))

(***************************************************************************)
(* The inputs: the environment's API key, the request bodies and the       *)
(* backend's answers.                                                      *)
(***************************************************************************)
\* process.env.GEMINI_API_KEY: unset, set to the empty string, or a key.
ApiKeys ==
  { Undefined, JSString(<< >>), JSString(<< Run("k", 8) >>) }

\* request.json() rejects: the body is not JSON.
UnreadableBody == [kind |-> "unreadable"]

\* The body is the JSON value null.
NullBody == [kind |-> "null"]

Body(system_text, diagram_summary, snippets, what_if) ==
  [kind |-> "object", system_text |-> system_text,
   diagram_summary |-> diagram_summary, snippets |-> snippets,
   what_if |-> what_if]

Snippets(config, logs, code) ==
  [kind |-> "object", config |-> config, logs |-> logs, code |-> code]

\* A string of n letters.
Letters(n) == JSString(IF n = 0 THEN << >> ELSE << Run("a", n) >>)

\* A string of n white space characters.
Blanks(n) == JSString(<< Run(" ", 1), Run(TAB, 1), Run(LF, n - 2) >>)

\* Combined lengths around the maximum.
Sizes == { MAX_TOTAL_CHARS + d : d \in (0 - MaxOver)..MaxOver }

\* Bodies whose system_text is missing, not a string, empty or blank.
BodiesWithoutSnapshot ==
  { Body(st, ds, Undefined, Undefined) :
      st \in { Undefined, JSNull, JSNumber(0), JSNumber(7), Letters(0),
               Blanks(3), Blanks(MAX_TOTAL_CHARS + 1) },
      ds \in { Undefined, Letters(MAX_TOTAL_CHARS + 1) } }

\* Bodies of a combined length around the maximum: in system_text alone, and
\* spread over the five counted fields (system_text padded with a blank).
BodiesBySize ==
  { Body(Letters(n), Undefined, Undefined, JSNull) : n \in Sizes } \cup
  { Body(JSString(<< Run(" ", 1), Run("a", 999) >>), Letters(4000),
         Snippets(Letters(5000), Letters(7000), Letters(n - 17000)),
         JSNull) : n \in Sizes }

\* Small bodies, with the what_if values the UI and other callers send.
SmallBodies ==
  { Body(Letters(40), Undefined, Snippets(Undefined, Letters(9), Undefined), wi) :
      wi \in { Undefined, Letters(12), Letters(MAX_TOTAL_CHARS) } }

Bodies ==
  { UnreadableBody, NullBody } \cup BodiesWithoutSnapshot \cup BodiesBySize \cup
  SmallBodies

\* Upper case of a character sequence.
UpperCase(s) == [i \in 1..Len(s) |-> Canonicalize(s[i])]

RECURSIVE Repeat(_, _)
\* n copies of word, separated by a blank.
Repeat(word, n) ==
  IF n = 1 THEN word ELSE word \o << " " >> \o Repeat(word, n - 1)

Keywords == { EXPLOIT_KEYWORDS[k] : k \in 1..Len(EXPLOIT_KEYWORDS) }

SAFE_NOTES == << "s", "a", "f", "e", "_", "n", "o", "t", "e", "s" >>

MITIGATIONS == << "m", "i", "t", "i", "g", "a", "t", "i", "o", "n", "s" >>

\* "Some potentially unsafe terms were redacted."
DISCLOSURE ==
  << "S", "o", "m", "e", " ", "p", "o", "t", "e", "n", "t", "i", "a", "l", "l", "y",
     " ", "u", "n", "s", "a", "f", "e", " ", "t", "e", "r", "m", "s", " ", "w", "e",
     "r", "e", " ", "r", "e", "d", "a", "c", "t", "e", "d", "." >>

\* An object with one string field holding the given text.
Finding(text) == JObj(<< Member(MITIGATIONS, JArr(<< JStr(text) >>)) >>)

\* Results that name a listed keyword in a string field: each keyword, in
\* lower case 1..MaxRepeat times and once in upper case.
KeywordValues ==
  { Finding(<< "u", "s", "e", " " >> \o Repeat(w, n)) :
      w \in Keywords, n \in 1..MaxRepeat } \cup
  { Finding(UpperCase(w) \o << " ", "o", "k" >>) : w \in Keywords }

\* Results without any listed keyword, of every top-level type.
CleanValues ==
  { JNull, JBool(TRUE), JNum(7), JStr(<< "o", "k" >>), JArr(<< >>), JObj(<< >>),
    JObj(<< Member(<< "r", "i", "s", "k" >>, JStr(<< "w", "e", "a", "k" >>)),
            Member(<< "s", "t", "e", "p" >>, JNum(1)),
            Member(SAFE_NOTES, JArr(<< JStr(<< "o", "k" >>) >>)) >>),
    Finding(<< "a", QUOTE, "b", BACKSLASH, "c", LF, "d" >>),
    Finding(<< "c", "m", "d", "-", "e", "x", "e" >>),
    Finding(<< CR >> \o Tail(EXPLOIT_KEYWORDS[2])),
    Finding(<< SHIFT_OUT >> \o Tail(EXPLOIT_KEYWORDS[5])) }

\* Results that name a keyword in other places and shapes.
OtherValues ==
  { JStr(EXPLOIT_KEYWORDS[1]),
    JArr(<< JStr(EXPLOIT_KEYWORDS[5]) >>),
    JObj(<< Member(EXPLOIT_KEYWORDS[1], JNum(1)) >>),
    JObj(<< Member(MITIGATIONS, JStr(EXPLOIT_KEYWORDS[9])),
            Member(SAFE_NOTES, JArr(<< JStr(<< "o", "k" >>) >>)) >>),
    JObj(<< Member(SAFE_NOTES, JStr(<< "o", "k" >>)),
            Member(MITIGATIONS, JStr(EXPLOIT_KEYWORDS[4])) >>),
    Finding(EXPLOIT_KEYWORDS[1] \o << CR >> \o Tail(EXPLOIT_KEYWORDS[2])),
    Finding(EXPLOIT_KEYWORDS[2] \o << "c", "o", "d", "e" >>),
    Finding(<< "s", "q", "l", "m", "a" >> \o EXPLOIT_KEYWORDS[1]),
    Finding(<< "p", "a", "y" >> \o EXPLOIT_KEYWORDS[5] \o << "l", "o", "a", "d" >>),
    JObj(<< Member(EXPLOIT_KEYWORDS[1], JNum(1)),
            Member(EXPLOIT_KEYWORDS[5], JNum(2)) >>) }

ATTACK_PATHS ==
  << "a", "t", "t", "a", "c", "k", "_", "p", "a", "t", "h", "s" >>

STEPS == << "s", "t", "e", "p", "s" >>

STEP == << "s", "t", "e", "p" >>

\* An attack path whose steps carry the given numbers, in that order.
AttackPath(numbers) ==
  JObj(<< Member(STEPS,
                 JArr([i \in 1..Len(numbers) |->
                         JObj(<< Member(STEP, JNum(numbers[i])) >>)])) >>)

\* A result with the given attack paths.
Analysis(paths) == JObj(<< Member(ATTACK_PATHS, JArr(paths)) >>)

\* Results as the schema of the prompt asks for them, and results a model
\* returns against it: three paths, steps out of order, steps from 0.
SchemaValues ==
  { Analysis(<< AttackPath(<< 1, 2 >>), AttackPath(<< 1 >>) >>),
    Analysis(<< AttackPath(<< 1 >>), AttackPath(<< 1 >>), AttackPath(<< 1 >>) >>),
    Analysis(<< AttackPath(<< 2, 1 >>) >>),
    Analysis(<< AttackPath(<< 0, 1 >>) >>) }

ModelValues == KeywordValues \cup CleanValues \cup OtherValues \cup SchemaValues

\* Texts JSON.parse rejects: prose, a fenced block, a cut-off object.
UnparseableTexts ==
  { << "n", "o", "t", " ", "j", "s", "o", "n" >>,
    << GRAVE, GRAVE, GRAVE, "{", "}", GRAVE, GRAVE, GRAVE >>,
    << "{", QUOTE, "a", QUOTE, ":" >> }

\* A response with one candidate whose content has the given parts.
Answer(parts) == HttpOk(<< << Candidate(<< Content(<< parts >>) >>) >> >>)

\* White space before and after a text, 0..MaxPad characters on each side.
Padded(text) ==
  { Spaces(n) \o text \o (IF n = 0 THEN << >> ELSE << LF >> \o Spaces(n - 1)) :
      n \in 0..MaxPad }

\* What the backend may answer to a call.
BackendResponses ==
  { FetchRejected, HttpOkNotJson,
    HttpFailure(429, << "q", "u", "o", "t", "a" >>),
    HttpFailure(500, << >>),
    HttpOk(<< >>), HttpOk(<< << >> >>),
    HttpOk(<< << Candidate(<< >>) >> >>),
    HttpOk(<< << Candidate(<< Content(<< >>) >>) >> >>),
    Answer(<< >>),
    Answer(<< Part(<< >>) >>),
    Answer(<< Part(<< << "{" >> >>), Part(<< >>), Part(<< << "}" >> >>) >>),
    HttpOk(<< << Candidate(<< Content(<< << Part(<< << "7" >> >>) >> >>) >>),
                 Candidate(<< Content(<< << Part(<< << "x" >> >>) >> >>) >>) >> >>) }
  \cup { Answer(<< Part(<< Stringify(v, 0, 0) >>) >>) : v \in ModelValues }
  \cup { Answer(<< Part(<< JSONStringify(Finding(EXPLOIT_KEYWORDS[3])) >>) >>) }
  \cup { Answer(<< Part(<< t >>) >>) :
           t \in UNION { Padded(u) : u \in UnparseableTexts \cup {<< >>} } }

(***************************************************************************)
(* Responses and thrown errors.  An error message is a sequence of         *)
(* strings: the fixed parts of a message are one string each, a text a     *)
(* message quotes is there character by character.                         *)
(***************************************************************************)
NoResponse ==
  [kind |-> "none", status |-> 0, error |-> "", details |-> << >>,
   raw_output |-> << >>, json |-> JNull]

\* NextResponse.json({ error }, { status }): the three early returns of POST.
ErrorResponse(status, error) ==
  [kind |-> "error", status |-> status, error |-> error, details |-> << >>,
   raw_output |-> << >>, json |-> JNull]

\* The catch block of POST: every thrown value here is an Error.
CaughtResponse(message) ==
  [kind |-> "error", status |-> 500, error |-> "Failed to analyze attack paths.",
   details |-> << message >>, raw_output |-> << message >>, json |-> JNull]

\* NextResponse.json(sanitizedJson, { status: 200 })
SuccessResponse(json) ==
  [kind |-> "json", status |-> 200, error |-> "", details |-> << >>,
   raw_output |-> << >>, json |-> json]

Thrown(at, message) == [at |-> at, message |-> message]

\* The outcome of the code of POST between reading the body and the first
\* call: a thrown error, an early return, or a pass.
Outcome(next, thrown, response) ==
  [next |-> next, thrown |-> thrown, response |-> response]

Throws(at, message) ==
  Outcome("throw", << Thrown(at, message) >>, CaughtResponse(message))

Returns(response) == Outcome("return", << >>, response)

Passes == Outcome("pass", << >>, NoResponse)

\* KeyMissing as if the check were apiKey === undefined.
KeyMissingUndefinedOnly(key) == key.kind = "undefined"

\* The API key check of POST.
KeyMissing(key) == ~Truthy(key)

\* The Input Validator: request.json() and the two checks of POST.
Validate(b) ==
  IF b.kind = "unreadable"
  THEN Throws("request.json", << "Unexpected token in JSON" >>)
  ELSE IF b.kind = "null"
  THEN Throws("body.system_text",
              << "Cannot read properties of null (reading 'system_text')" >>)
  ELSE IF ~Truthy(b.system_text)
  THEN Returns(ErrorResponse(400, "System snapshot is required."))
  ELSE IF b.system_text.kind # "string"
  THEN Throws("body.system_text.trim",
              << "body.system_text.trim is not a function" >>)
  ELSE IF RunsLength(TrimRuns(b.system_text.runs)) = 0
  THEN Returns(ErrorResponse(400, "System snapshot is required."))
  ELSE IF totalInputLength(b) > MAX_TOTAL_CHARS
  THEN Returns(ErrorResponse(400,
         "Input too large. Please keep total input under 25k characters."))
  ELSE Passes

\* The messages of the primary call.
PrimaryCall(userPrompt) ==
  [kind |-> "primary", directive |-> "DEVELOPER_PROMPT",
   userPrompt |-> userPrompt, toRepair |-> << >>]

\* RepairCall as if the text to repair were left out of the messages.
RepairCallWithoutText(initialText) ==
  [kind |-> "repair",
   directive |-> "Return valid JSON only matching the required schema. Fix the following output.",
   userPrompt |-> << >>, toRepair |-> << >>]

\* The messages of the repair call.
RepairCall(initialText) ==
  [kind |-> "repair",
   directive |-> "Return valid JSON only matching the required schema. Fix the following output.",
   userPrompt |-> << >>, toRepair |-> initialText]

\* callGemini as if a non-success answer were reported without the backend's
\* status and body.
callGeminiWithoutDetails(r) ==
  CASE r.kind = "rejected" -> << Thrown("fetch", << "fetch failed" >>) >>
    [] r.kind = "failure" -> << Thrown("callGemini", << "Gemini API error" >>) >>
    [] r.kind = "notjson" ->
         << Thrown("response.json", << "Unexpected token in JSON" >>) >>
    [] OTHER -> << >>

\* callGemini on the backend's answer r: the error it throws, if any.
callGemini(r) ==
  CASE r.kind = "rejected" -> << Thrown("fetch", << "fetch failed" >>) >>
    [] r.kind = "failure" ->
         << Thrown("callGemini",
                   << "Gemini API error: " >> \o NumToChars(r.status) \o << " " >> \o
                   r.text) >>
    [] r.kind = "notjson" ->
         << Thrown("response.json", << "Unexpected token in JSON" >>) >>
    [] OTHER -> << >>

\* sanitizedJson.safe_notes = ... can be done: a string, a number or a
\* boolean takes no property in strict mode, null has none to read.
TakesProperty(v) == v.t \in {"object", "array"}

\* sanitizedJson with the note put first in safe_notes, as NextResponse.json
\* serializes it: a property set on an array is not serialized.
WithDisclosure(v) ==
  IF v.t = "array" THEN v
  ELSE LET old == ObjGet(v.members, SAFE_NOTES)
           notes == IF old.t = "array" THEN old.items ELSE << >>
       IN JObj(ObjPut(v.members, SAFE_NOTES, JArr(<< JStr(DISCLOSURE) >> \o notes)))

\* POST from the resolved value to its response: serialize, redact,
\* re-parse, attach the note.
Respond(parsedValue) ==
  LET rawString == JSONStringify(parsedValue)
      san == sanitizeOutput(rawString)
      sanitizedJson == JSONParse(san.sanitized)
  IN IF ~sanitizedJson.ok
     THEN Throws("JSON.parse(sanitized)", << "Bad escaped character in JSON" >>)
     ELSE IF ~san.redacted THEN Returns(SuccessResponse(sanitizedJson.v))
     ELSE IF ~TakesProperty(sanitizedJson.v)
     THEN Throws("sanitizedJson.safe_notes",
                 << "Cannot create property 'safe_notes'" >>)
     ELSE Returns(SuccessResponse(WithDisclosure(sanitizedJson.v)))

\* FirstParseSucceeds as if the first text were never trusted.
FirstParseDistrusted(text) == FALSE

\* initialText parses: parseGeminiJson returns without a repair call.
FirstParseSucceeds(text) == JSONParse(text).ok

\* RepairParseSucceeds as if the repaired text were parsed with the first
\* text's result.
RepairParseRejected(text) == FALSE

\* repairText parses: parseGeminiJson returns the repaired value.
RepairParseSucceeds(text) == JSONParse(text).ok

\* SchemaErrorMessage as if the repaired text were always the payload.
SchemaErrorMessageRepairOnly(repair, initial) == repair

\* repairText || initialText
SchemaErrorMessage(repair, initial) == IF repair # << >> THEN repair ELSE initial

(***************************************************************************)
(* The state of one request and the steps of POST, one per suspension.     *)
(***************************************************************************)
VARIABLES
  apiKey,       \* process.env.GEMINI_API_KEY
  body,         \* what request.json() yields
  pc,           \* "entry", "readBody", "primary", "repair", "done"
  bodyRead,     \* request.json() has been called
  calls,        \* the messages of the callGemini invocations, in order
  initialText,  \* << >> or << the text extracted from the primary response >>
  repairText,   \* << >> or << the text extracted from the repair response >>
  resolved,     \* << >> or << [parsed, raw] >> as parseGeminiJson returned it
  thrown,       \* << >> or << the error the catch block caught >>
  response,     \* the response of POST
  requests,     \* the requests that are served at the same time, by number
  scopes,       \* the local variables of their parseGeminiJson invocations
  systemText,   \* the page: the System Snapshot field
  diagramSummary,  \* the Diagram Summary field
  configSnippet,   \* the Config field
  logSnippet,   \* the Logs field
  codeSnippet,  \* the Code Excerpt field
  analysis,     \* << >> (null) or << the analysis on display >>
  error,        \* << >> (null) or << the error on display >>
  loading,      \* the loading flag
  activeTab,    \* the tab of the results panel
  rawOutput,    \* << >> (null) or << the text of the Raw JSON block >>
  lastWhatIf,   \* << >> (null) or << the what-if of the latest runAnalysis >>
  invocations   \* the runAnalysis invocations that have not returned

\* The state of the requests served at the same time.
concurrentVars == << requests, scopes >>

\* The state of the one request followed step by step.
requestVars ==
  << body, pc, bodyRead, calls, initialText, repairText, resolved, thrown,
     response >>

\* The fields of the form of the page.
formVars ==
  << systemText, diagramSummary, configSnippet, logSnippet, codeSnippet >>

\* The state of the page (the useState hooks of HomePage) and its requests.
pageVars ==
  << formVars, analysis, error, loading, activeTab, rawOutput, lastWhatIf,
     invocations >>

vars == << apiKey, requestVars, concurrentVars, pageVars >>

\* The initial values of the useState hooks of HomePage; no request is out.
HomePageMounted ==
  /\ systemText = Letters(0)
  /\ diagramSummary = Letters(0)
  /\ configSnippet = Letters(0)
  /\ logSnippet = Letters(0)
  /\ codeSnippet = Letters(0)
  /\ analysis = << >>
  /\ error = << >>
  /\ loading = FALSE
  /\ activeTab = "Summary"
  /\ rawOutput = << >>
  /\ lastWhatIf = << >>
  /\ invocations = << >>

Init ==
  /\ apiKey \in ApiKeys
  /\ body \in Bodies
  /\ pc = "entry"
  /\ bodyRead = FALSE
  /\ calls = << >>
  /\ initialText = << >>
  /\ repairText = << >>
  /\ resolved = << >>
  /\ thrown = << >>
  /\ response = NoResponse
  /\ requests = << >>
  /\ scopes = << >>
  /\ HomePageMounted

\* POST up to await request.json(): the configuration check.
PostEntry ==
  /\ pc = "entry"
  /\ IF KeyMissing(apiKey)
     THEN /\ response' = ErrorResponse(500, "Missing GEMINI_API_KEY environment variable.")
          /\ pc' = "done"
          /\ bodyRead' = bodyRead
     ELSE /\ response' = response
          /\ pc' = "readBody"
          /\ bodyRead' = TRUE
  /\ UNCHANGED << apiKey, body, calls, initialText, repairText, resolved, thrown >>
  /\ UNCHANGED << concurrentVars, pageVars >>

\* POST from the body to the primary call: validation, the user prompt, the
\* fetch of the primary call.
ReadBody ==
  /\ pc = "readBody"
  /\ LET o == Validate(body)
     IN IF o.next = "pass"
        THEN /\ calls' = Append(calls, PrimaryCall(buildUserPrompt(body)))
             /\ pc' = "primary"
             /\ UNCHANGED << thrown, response >>
        ELSE /\ thrown' = o.thrown
             /\ response' = o.response
             /\ pc' = "done"
             /\ calls' = calls
  /\ UNCHANGED << apiKey, body, bodyRead, initialText, repairText, resolved >>
  /\ UNCHANGED << concurrentVars, pageVars >>

\* Finish as if POST had no catch block: a thrown error leaves it without a
\* response.
FinishUncaught(o) ==
  /\ thrown' = o.thrown
  /\ response' = IF o.thrown # << >> THEN NoResponse ELSE o.response
  /\ pc' = "done"

\* The request ends with the outcome o of Respond or of a throw.
Finish(o) ==
  /\ thrown' = o.thrown
  /\ response' = o.response
  /\ pc' = "done"

\* The primary call's answer r arrives: parseGeminiJson returns the parsed
\* value and POST responds, or the repair call is issued.
PrimaryReturns(r) ==
  /\ pc = "primary"
  /\ IF callGemini(r) # << >>
     THEN /\ Finish(Throws(callGemini(r)[1].at, callGemini(r)[1].message))
          /\ UNCHANGED << calls, initialText, resolved >>
     ELSE /\ initialText' = << extractText(r) >>
          /\ IF FirstParseSucceeds(extractText(r))
             THEN /\ resolved' = << [parsed |-> JSONParse(extractText(r)).v,
                                     raw |-> extractText(r)] >>
                  /\ Finish(Respond(JSONParse(extractText(r)).v))
                  /\ calls' = calls
             ELSE /\ calls' = Append(calls, RepairCall(extractText(r)))
                  /\ pc' = "repair"
                  /\ UNCHANGED << resolved, thrown, response >>
  /\ UNCHANGED << apiKey, body, bodyRead, repairText >>
  /\ UNCHANGED << concurrentVars, pageVars >>

\* RepairReturns as if a failed repair were repaired again.
RepairReturnsRetrying(r) ==
  /\ pc = "repair"
  /\ IF callGemini(r) # << >>
     THEN /\ Finish(Throws(callGemini(r)[1].at, callGemini(r)[1].message))
          /\ UNCHANGED << repairText, resolved, calls >>
     ELSE /\ repairText' = << extractText(r) >>
          /\ IF RepairParseSucceeds(extractText(r))
             THEN /\ resolved' = << [parsed |-> JSONParse(extractText(r)).v,
                                     raw |-> extractText(r)] >>
                  /\ Finish(Respond(JSONParse(extractText(r)).v))
                  /\ calls' = calls
             ELSE /\ calls' = Append(calls, RepairCall(extractText(r)))
                  /\ UNCHANGED << resolved, thrown, response, pc >>
  /\ UNCHANGED << apiKey, body, bodyRead, initialText >>
  /\ UNCHANGED << concurrentVars, pageVars >>

\* The repair call's answer r arrives: parseGeminiJson returns the repaired
\* value and POST responds, or it throws with the best raw text.
RepairReturns(r) ==
  /\ pc = "repair"
  /\ IF callGemini(r) # << >>
     THEN /\ Finish(Throws(callGemini(r)[1].at, callGemini(r)[1].message))
          /\ UNCHANGED << repairText, resolved >>
     ELSE /\ repairText' = << extractText(r) >>
          /\ IF RepairParseSucceeds(extractText(r))
             THEN /\ resolved' = << [parsed |-> JSONParse(extractText(r)).v,
                                     raw |-> extractText(r)] >>
                  /\ Finish(Respond(JSONParse(extractText(r)).v))
             ELSE /\ resolved' = resolved
                  /\ Finish(Throws("parseGeminiJson",
                                   SchemaErrorMessage(extractText(r), initialText[1])))
  /\ UNCHANGED << apiKey, body, bodyRead, calls, initialText >>
  /\ UNCHANGED << concurrentVars, pageVars >>

Next ==
  \/ PostEntry
  \/ ReadBody
  \/ \E r \in BackendResponses : PrimaryReturns(r)
  \/ \E r \in BackendResponses : RepairReturns(r)

Spec == Init /\ [][Next]_vars

\* The same under the scheduling of the runtime: a request that can take a
\* step takes it, and every call to the backend returns or fails.
FairSpec == Spec /\ WF_vars(Next)

(***************************************************************************)
(* Two requests served at the same time.  The runtime runs one request at  *)
(* a time up to its next await; the requests interleave at the awaits of   *)
(* the backend calls.  Each request has its own body, position, calls,     *)
(* answers and response; initialText, repairText and the resolved value    *)
(* are locals of its invocation of parseGeminiJson.                        *)
(***************************************************************************)
RequestIds == {1, 2}

\* The bodies of the two requests: two valid ones and a blank one.
ConcurrentBodies ==
  { Body(Letters(40), Undefined, Undefined, Undefined),
    Body(Letters(41), Undefined, Undefined, Letters(12)),
    Body(Blanks(3), Undefined, Undefined, Undefined) }

\* What the backend answers to the calls of the two requests: a failed
\* fetch, a non-success status, no text, two texts that do not parse, two
\* results with a keyword and a result without one.
ConcurrentResponses ==
  { FetchRejected,
    HttpFailure(429, << "q", "u", "o", "t", "a" >>),
    Answer(<< >>),
    Answer(<< Part(<< << "n", "o", "t", " ", "j", "s", "o", "n" >> >>) >>),
    Answer(<< Part(<< << "{", QUOTE, "a", QUOTE, ":" >> >>) >>),
    Answer(<< Part(<< Stringify(Finding(Repeat(EXPLOIT_KEYWORDS[1], 2)), 0, 0) >>) >>),
    Answer(<< Part(<< Stringify(Finding(UpperCase(EXPLOIT_KEYWORDS[3])), 0, 0) >>) >>),
    Answer(<< Part(<< Stringify(JObj(<< Member(STEP, JNum(1)) >>), 0, 0) >>) >>) }

\* A request that has arrived with body b.
NewRequest(b) ==
  [body |-> b, pc |-> "entry", calls |-> << >>, answers |-> << >>,
   thrown |-> << >>, response |-> NoResponse]

\* The locals of an invocation of parseGeminiJson before its first await.
NewScope == [initialText |-> << >>, repairText |-> << >>, resolved |-> << >>]

\* ScopeOf as if initialText, repairText and the result were variables of
\* the module, one for all requests.
ScopeOfModule(i) == 1

\* The scope the locals of request i live in: one per invocation.
ScopeOf(i) == i

\* Request i has ended with the given error and response.
Ended(i, r, err, resp) ==
  [requests EXCEPT ![i] =
     [@ EXCEPT !.pc = "done", !.answers = @ \o r, !.thrown = err, !.response = resp]]

ConcurrentInit ==
  /\ apiKey \in ApiKeys
  /\ requests \in [RequestIds -> { NewRequest(b) : b \in ConcurrentBodies }]
  /\ scopes = [i \in RequestIds |-> NewScope]
  /\ body = UnreadableBody
  /\ pc = "entry"
  /\ bodyRead = FALSE
  /\ calls = << >>
  /\ initialText = << >>
  /\ repairText = << >>
  /\ resolved = << >>
  /\ thrown = << >>
  /\ response = NoResponse
  /\ HomePageMounted

\* POST of request i up to await request.json().
ConcurrentPostEntry(i) ==
  /\ requests[i].pc = "entry"
  /\ requests' =
       IF KeyMissing(apiKey)
       THEN Ended(i, << >>, << >>,
                  ErrorResponse(500, "Missing GEMINI_API_KEY environment variable."))
       ELSE [requests EXCEPT ![i].pc = "readBody"]
  /\ UNCHANGED << apiKey, scopes, requestVars, pageVars >>

\* POST of request i from its body to the await of the primary call.
ConcurrentReadBody(i) ==
  /\ requests[i].pc = "readBody"
  /\ LET o == Validate(requests[i].body)
     IN requests' =
          IF o.next = "pass"
          THEN [requests EXCEPT
                  ![i] = [@ EXCEPT !.pc = "primary",
                                   !.calls = Append(@, PrimaryCall(buildUserPrompt(requests[i].body)))]]
          ELSE Ended(i, << >>, o.thrown, o.response)
  /\ UNCHANGED << apiKey, scopes, requestVars, pageVars >>

\* The answer r to the primary call of request i arrives.
ConcurrentPrimaryReturns(i, r) ==
  /\ requests[i].pc = "primary"
  /\ IF callGemini(r) # << >>
     THEN /\ requests' = Ended(i, << r >>, callGemini(r),
                               CaughtResponse(callGemini(r)[1].message))
          /\ scopes' = scopes
     ELSE IF FirstParseSucceeds(extractText(r))
     THEN LET o == Respond(JSONParse(extractText(r)).v)
          IN /\ scopes' =
                  [scopes EXCEPT
                     ![ScopeOf(i)] =
                        [@ EXCEPT !.initialText = << extractText(r) >>,
                                  !.resolved = << [parsed |-> JSONParse(extractText(r)).v,
                                                   raw |-> extractText(r)] >>]]
             /\ requests' = Ended(i, << r >>, o.thrown, o.response)
     ELSE /\ scopes' = [scopes EXCEPT ![ScopeOf(i)].initialText = << extractText(r) >>]
          /\ requests' =
               [requests EXCEPT
                  ![i] = [@ EXCEPT !.pc = "repair",
                                   !.answers = Append(@, r),
                                   !.calls = Append(@, RepairCall(extractText(r)))]]
  /\ UNCHANGED << apiKey, requestVars, pageVars >>

\* The answer r to the repair call of request i arrives.
ConcurrentRepairReturns(i, r) ==
  /\ requests[i].pc = "repair"
  /\ IF callGemini(r) # << >>
     THEN /\ requests' = Ended(i, << r >>, callGemini(r),
                               CaughtResponse(callGemini(r)[1].message))
          /\ scopes' = scopes
     ELSE IF RepairParseSucceeds(extractText(r))
     THEN LET o == Respond(JSONParse(extractText(r)).v)
          IN /\ scopes' =
                  [scopes EXCEPT
                     ![ScopeOf(i)] =
                        [@ EXCEPT !.repairText = << extractText(r) >>,
                                  !.resolved = << [parsed |-> JSONParse(extractText(r)).v,
                                                   raw |-> extractText(r)] >>]]
             /\ requests' = Ended(i, << r >>, o.thrown, o.response)
     ELSE LET o == Throws("parseGeminiJson",
                          SchemaErrorMessage(extractText(r),
                                             scopes[ScopeOf(i)].initialText[1]))
          IN /\ scopes' = [scopes EXCEPT ![ScopeOf(i)].repairText = << extractText(r) >>]
             /\ requests' = Ended(i, << r >>, o.thrown, o.response)
  /\ UNCHANGED << apiKey, requestVars, pageVars >>

ConcurrentNext ==
  \E i \in RequestIds :
    \/ ConcurrentPostEntry(i)
    \/ ConcurrentReadBody(i)
    \/ \E r \in ConcurrentResponses : ConcurrentPrimaryReturns(i, r)
    \/ \E r \in ConcurrentResponses : ConcurrentRepairReturns(i, r)

ConcurrentSpec == ConcurrentInit /\ [][ConcurrentNext]_vars

(***************************************************************************)
(* The page (HomePage): its form, its buttons and runAnalysis.  An event   *)
(* handler runs to its end or to its next await, and the page is rendered  *)
(* again before the next event is handled.                                 *)
(***************************************************************************)
\* What the route model keeps: left alone by the page.
routeVars == << apiKey, requestVars, concurrentVars >>

\* exampleData: the example texts, by their lengths.
exampleData ==
  [system_text |-> Letters(445),
   diagram_summary |-> Letters(134),
   snippets |-> [config |-> Letters(102), logs |-> Letters(242),
                 code |-> Letters(100)]]

whatIfOptions ==
  << [label |-> "What-if: Enable MFA",
      value |-> "Enable MFA for all privileged accounts and enforce phishing-resistant MFA where possible."],
     [label |-> "What-if: Patch Exposed Service",
      value |-> "The exposed service is patched and now rejects unauthenticated requests; rate limiting is enabled."],
     [label |-> "What-if: Attacker Has Internal Access",
      value |-> "Assume the attacker has low-privilege internal network access (e.g., compromised employee device)."] >>

tabLabels == << "Summary", "Attack Paths", "Priority Fixes", "What Changed" >>

\* What a user types into the System Snapshot field: nothing, white space,
\* a description.
SnapshotTexts == { Letters(0), Blanks(3), Letters(40) }

\* What a user types into an optional field.
OptionalTexts == { Letters(0), Letters(9) }

\* The arguments the buttons call runAnalysis with: null (Analyze Attack
\* Paths) and the value of each what-if button.
WhatIfArguments ==
  { << >> } \cup { << whatIfOptions[k].value >> : k \in 1..Len(whatIfOptions) }

\* The analysis the service returns for a request with the given what_if.
AnalysisFor(whatIf) == [what_if |-> whatIf]

\* The payloads of the responses of the route that are not ok.
ErrorPayloads ==
  { [error |-> "System snapshot is required."],
    [error |-> "Failed to analyze attack paths.", details |-> "Gemini API error",
     raw_output |-> "Gemini API error"] }

\* The error the catch block of runAnalysis sets.
UnreachableError(message) ==
  [error |-> "Unable to reach the analysis service.", details |-> message]

\* isAnalyzeDisabled as if the buttons looked at the snapshot only.
isAnalyzeDisabledWhenBlank == RunsLength(TrimRuns(systemText.runs)) = 0

\* The disabled attribute of the Analyze button and of every what-if button.
isAnalyzeDisabled == loading \/ RunsLength(TrimRuns(systemText.runs)) = 0

\* formattedRawJson: the serialized analysis, null without an analysis.
formattedRawJson ==
  IF analysis = << >> THEN << >> ELSE << [stringified |-> analysis[1]] >>

\* A sequence without its i-th element.
Without(seq, i) == SubSeq(seq, 1, i - 1) \o SubSeq(seq, i + 1, Len(seq))

PageInit ==
  /\ HomePageMounted
  /\ apiKey = Undefined
  /\ body = UnreadableBody
  /\ pc = "entry"
  /\ bodyRead = FALSE
  /\ calls = << >>
  /\ initialText = << >>
  /\ repairText = << >>
  /\ resolved = << >>
  /\ thrown = << >>
  /\ response = NoResponse
  /\ requests = << >>
  /\ scopes = << >>

\* onChange of the System Snapshot field.
setSystemText(value) ==
  /\ systemText' = value
  /\ UNCHANGED << diagramSummary, configSnippet, logSnippet, codeSnippet >>
  /\ UNCHANGED << analysis, error, loading, activeTab, rawOutput, lastWhatIf,
                  invocations, routeVars >>

\* onChange of the Diagram Summary field.
setDiagramSummary(value) ==
  /\ diagramSummary' = value
  /\ UNCHANGED << systemText, configSnippet, logSnippet, codeSnippet >>
  /\ UNCHANGED << analysis, error, loading, activeTab, rawOutput, lastWhatIf,
                  invocations, routeVars >>

\* onChange of the Config field.
setConfigSnippet(value) ==
  /\ configSnippet' = value
  /\ UNCHANGED << systemText, diagramSummary, logSnippet, codeSnippet >>
  /\ UNCHANGED << analysis, error, loading, activeTab, rawOutput, lastWhatIf,
                  invocations, routeVars >>

\* onChange of the Logs field.
setLogSnippet(value) ==
  /\ logSnippet' = value
  /\ UNCHANGED << systemText, diagramSummary, configSnippet, codeSnippet >>
  /\ UNCHANGED << analysis, error, loading, activeTab, rawOutput, lastWhatIf,
                  invocations, routeVars >>

\* onChange of the Code Excerpt field.
setCodeSnippet(value) ==
  /\ codeSnippet' = value
  /\ UNCHANGED << systemText, diagramSummary, configSnippet, logSnippet >>
  /\ UNCHANGED << analysis, error, loading, activeTab, rawOutput, lastWhatIf,
                  invocations, routeVars >>

\* A click on an enabled Analyze or what-if button: runAnalysis up to its
\* await of fetch.
runAnalysis(whatIf) ==
  /\ ~isAnalyzeDisabled
  /\ Len(invocations) < MaxInvocations
  /\ loading' = TRUE
  /\ error' = << >>
  /\ rawOutput' = << >>
  /\ lastWhatIf' = whatIf
  /\ invocations' = Append(invocations, [whatIf |-> whatIf, pc |-> "fetch", ok |-> FALSE])
  /\ UNCHANGED << formVars, analysis, activeTab, routeVars >>

\* fetch of invocation i resolves with a response: runAnalysis up to its
\* await of response.json().
FetchResolves(i, ok) ==
  /\ invocations[i].pc = "fetch"
  /\ invocations' = [invocations EXCEPT ![i].pc = "json", ![i].ok = ok]
  /\ UNCHANGED << formVars, analysis, error, loading, activeTab, rawOutput,
                  lastWhatIf, routeVars >>

\* The catch block and the finally block of invocation i.
Catch(i, message) ==
  /\ error' = << UnreachableError(message) >>
  /\ analysis' = << >>
  /\ loading' = FALSE
  /\ invocations' = Without(invocations, i)
  /\ UNCHANGED << formVars, activeTab, rawOutput, lastWhatIf, routeVars >>

\* fetch of invocation i rejects: the service is not reached.
FetchRejects(i) ==
  /\ invocations[i].pc = "fetch"
  /\ Catch(i, "Failed to fetch")

\* response.json() of invocation i rejects: the body is not JSON.
JsonRejects(i) ==
  /\ invocations[i].pc = "json"
  /\ Catch(i, "Unexpected token")

\* response.json() of invocation i resolves with the payload: runAnalysis
\* to its end, the finally block included.
JsonResolves(i, payload) ==
  /\ invocations[i].pc = "json"
  /\ IF ~invocations[i].ok
     THEN /\ error' = << payload >>
          /\ analysis' = << >>
          /\ activeTab' = activeTab
     ELSE /\ analysis' = << payload >>
          /\ activeTab' = "Summary"
          /\ error' = error
  /\ loading' = FALSE
  /\ invocations' = Without(invocations, i)
  /\ UNCHANGED << formVars, rawOutput, lastWhatIf, routeVars >>

\* The payloads the service answers invocation i with.
PayloadsFor(i) ==
  IF invocations[i].ok THEN { AnalysisFor(invocations[i].whatIf) } ELSE ErrorPayloads

\* A click on Load Example.
handleLoadExample ==
  /\ systemText' = exampleData.system_text
  /\ diagramSummary' = exampleData.diagram_summary
  /\ configSnippet' = exampleData.snippets.config
  /\ logSnippet' = exampleData.snippets.logs
  /\ codeSnippet' = exampleData.snippets.code
  /\ analysis' = << >>
  /\ error' = << >>
  /\ rawOutput' = << >>
  /\ UNCHANGED << loading, activeTab, lastWhatIf, invocations, routeVars >>

\* A click on a tab of the results panel, rendered with an analysis only.
setActiveTab(tab) ==
  /\ analysis # << >>
  /\ activeTab' = tab
  /\ UNCHANGED << formVars, analysis, error, loading, rawOutput, lastWhatIf,
                  invocations, routeVars >>

\* onToggle of the Raw JSON block when it opens.
setRawOutput ==
  /\ analysis # << >>
  /\ rawOutput' = formattedRawJson
  /\ UNCHANGED << formVars, analysis, error, loading, activeTab, lastWhatIf,
                  invocations, routeVars >>

PageNext ==
  \/ \E value \in SnapshotTexts : setSystemText(value)
  \/ \E value \in OptionalTexts : setDiagramSummary(value)
  \/ \E value \in OptionalTexts : setConfigSnippet(value)
  \/ \E value \in OptionalTexts : setLogSnippet(value)
  \/ \E value \in OptionalTexts : setCodeSnippet(value)
  \/ \E whatIf \in WhatIfArguments : runAnalysis(whatIf)
  \/ handleLoadExample
  \/ \E k \in 1..Len(tabLabels) : setActiveTab(tabLabels[k])
  \/ setRawOutput
  \/ \E i \in 1..Len(invocations) :
       \/ \E ok \in BOOLEAN : FetchResolves(i, ok)
       \/ FetchRejects(i)
       \/ JsonRejects(i)
       \/ \E payload \in PayloadsFor(i) : JsonResolves(i, payload)

PageSpec == PageInit /\ [][PageNext]_vars

(***************************************************************************)
(* Properties.                                                             *)
(***************************************************************************)
\* An API key is configured: GEMINI_API_KEY is a non-empty string.
KeyConfigured == apiKey.kind = "string" /\ RunsLength(apiKey.runs) > 0

\* No API key: GEMINI_API_KEY is unset or empty.
KeyAbsent == ~KeyConfigured

\* The body's system_text is a string that is empty or all white space.
BlankSnapshot ==
  /\ body.kind = "object"
  /\ body.system_text.kind = "string"
  /\ \A i \in 1..Len(body.system_text.runs) :
       body.system_text.runs[i].ch \in WhiteSpaceChars

\* The character length of a field, 0 for one that is absent.
FieldLength(v) == IF v.kind = "string" THEN RunsLength(v.runs) ELSE 0

\* The combined length of system_text, diagram_summary and the snippets.
CombinedLength(b) ==
  FieldLength(b.system_text) + FieldLength(b.diagram_summary) +
  (IF b.snippets.kind = "object"
   THEN FieldLength(b.snippets.config) + FieldLength(b.snippets.logs) +
        FieldLength(b.snippets.code)
   ELSE 0)

\* The body is an object whose system_text is text or absent.
TextFields(b) ==
  b.kind = "object" /\ b.system_text.kind \in {"string", "undefined"}

TooLargeError == "Input too large. Please keep total input under 25k characters."

\* C1: with an API key, a request whose system_text is empty or all white
\* space gets status 400 with "System snapshot is required.", and no call
\* to the model backend is ever made for it.
C1_BlankSnapshotRejected ==
  (KeyConfigured /\ BlankSnapshot) =>
    /\ calls = << >>
    /\ pc \in {"entry", "readBody", "done"}
    /\ pc = "done" => response = ErrorResponse(400, "System snapshot is required.")

C1_Witness ==
  /\ KeyConfigured
  /\ BlankSnapshot
  /\ body.system_text.runs # << >>
  /\ pc = "done"
  /\ response.status = 400

\* C2: with an API key, a request of text fields whose combined length
\* exceeds 25,000 gets status 400 and no call is made; at exactly 25,000 the
\* size check does not reject, and the primary call follows validation.
C2_SizeBound ==
  (KeyConfigured /\ TextFields(body)) =>
    /\ CombinedLength(body) > MAX_TOTAL_CHARS =>
         /\ calls = << >>
         /\ pc = "done" => response.kind = "error" /\ response.status = 400
    /\ CombinedLength(body) = MAX_TOTAL_CHARS =>
         /\ response.error # TooLargeError
         /\ (~BlankSnapshot /\ body.system_text.kind = "string" /\
             pc \notin {"entry", "readBody"}) => Len(calls) >= 1

C2_Witness ==
  /\ KeyConfigured
  /\ body.kind = "object"
  /\ body.snippets.kind = "object"
  /\ CombinedLength(body) = MAX_TOTAL_CHARS + 1
  /\ pc = "done"
  /\ response = ErrorResponse(400, TooLargeError)

\* C3: without an API key every request, whatever its body, ends with the
\* status-500 "Missing GEMINI_API_KEY" response; the body is never read,
\* nothing is thrown and no call to the backend is made.
C3_ConfigurationFirst ==
  KeyAbsent =>
    /\ calls = << >>
    /\ ~bodyRead
    /\ thrown = << >>
    /\ pc \in {"entry", "done"}
    /\ pc = "done" =>
         response = ErrorResponse(500, "Missing GEMINI_API_KEY environment variable.")

C3_Witness ==
  /\ apiKey = JSString(<< >>)
  /\ body \in SmallBodies
  /\ pc = "done"
  /\ response.status = 500

\* C4: when the text extracted from the primary response parses as JSON,
\* parseGeminiJson has returned that value with that text, the request is
\* over and the primary call is its only call; the text a result was written
\* as parses back to that result.
C4_FirstParseNoRepair ==
  (initialText # << >> /\ JSONParse(initialText[1]).ok) =>
    /\ resolved = << [parsed |-> JSONParse(initialText[1]).v, raw |-> initialText[1]] >>
    /\ \A v \in ModelValues :
         initialText[1] = Stringify(v, 0, 0) => resolved[1].parsed = v
    /\ Len(calls) = 1
    /\ calls[1].kind = "primary"
    /\ repairText = << >>
    /\ pc = "done"

C4_Witness ==
  /\ pc = "done"
  /\ resolved # << >>
  /\ resolved[1].parsed.t = "object"
  /\ resolved[1].raw = initialText[1]
  /\ Len(calls) = 1

\* C5: when the primary text does not parse and the repair text does,
\* parseGeminiJson has returned the value parsed from the repair text with
\* that text, and exactly two calls were made, the second the repair call.
C5_RepairedValue ==
  (/\ initialText # << >>
   /\ ~JSONParse(initialText[1]).ok
   /\ repairText # << >>
   /\ JSONParse(repairText[1]).ok) =>
    /\ resolved = << [parsed |-> JSONParse(repairText[1]).v, raw |-> repairText[1]] >>
    /\ \A v \in ModelValues :
         repairText[1] = Stringify(v, 0, 0) => resolved[1].parsed = v
    /\ Len(calls) = 2
    /\ calls[2].kind = "repair"
    /\ pc = "done"

C5_Witness ==
  /\ pc = "done"
  /\ Len(calls) = 2
  /\ resolved # << >>
  /\ resolved[1].parsed.t = "object"
  /\ repairText = << resolved[1].raw >>
  /\ initialText # repairText

\* C6: a request never makes more than two calls; when neither the primary
\* nor the repair text parses the request is over after exactly two calls,
\* with the error parseGeminiJson throws and status 500.
C6_AtMostTwoCalls ==
  /\ Len(calls) <= 2
  /\ (/\ initialText # << >>
      /\ ~JSONParse(initialText[1]).ok
      /\ repairText # << >>
      /\ ~JSONParse(repairText[1]).ok) =>
       /\ pc = "done"
       /\ Len(calls) = 2
       /\ resolved = << >>
       /\ thrown # << >>
       /\ thrown[1].at = "parseGeminiJson"
       /\ response.kind = "error"
       /\ response.status = 500

C6_Witness ==
  /\ pc = "done"
  /\ Len(calls) = 2
  /\ thrown # << >>
  /\ thrown[1].at = "parseGeminiJson"
  /\ repairText # << >>
  /\ repairText[1] # << >>

\* The text holds the word, letter case aside, character for character.
HoldsWord(text, word) ==
  \E i \in 1..Len(text) :
    /\ i + Len(word) - 1 <= Len(text)
    /\ \A k \in 1..Len(word) : Canonicalize(text[i + k - 1]) = Canonicalize(word[k])

\* The text holds a keyword of the redaction list as a substring.
HoldsKeyword(text) == \E w \in Keywords : HoldsWord(text, w)

RECURSIVE StringValues(_)
\* The string values of a JSON value, at any depth.
StringValues(v) ==
  CASE v.t = "string" -> { v.s }
    [] v.t = "array" -> UNION { StringValues(v.items[i]) : i \in 1..Len(v.items) }
    [] v.t = "object" ->
         UNION { StringValues(v.members[i].v) : i \in 1..Len(v.members) }
    [] OTHER -> { }

RECURSIVE KeyStrings(_)
\* The object keys of a JSON value, at any depth.
KeyStrings(v) ==
  CASE v.t = "array" -> UNION { KeyStrings(v.items[i]) : i \in 1..Len(v.items) }
    [] v.t = "object" ->
         { v.members[i].k : i \in 1..Len(v.members) } \cup
         UNION { KeyStrings(v.members[i].v) : i \in 1..Len(v.members) }
    [] OTHER -> { }

\* The request resolved a JSON value and is over.
Resolved == pc = "done" /\ resolved # << >>

\* C7: when the resolved value is an object that names a listed keyword,
\* in any letter case, in a string value, the response is a success whose
\* string values hold no listed keyword and whose safe_notes is a sequence
\* with the disclosure note first and the notes it had after it.
C7_KeywordsRedacted ==
  (/\ Resolved
   /\ resolved[1].parsed.t = "object"
   /\ \E t \in StringValues(resolved[1].parsed) : HoldsKeyword(t)) =>
    /\ response.kind = "json"
    /\ response.json.t = "object"
    /\ \A t \in StringValues(response.json) : ~HoldsKeyword(t)
    /\ LET old == ObjGet(resolved[1].parsed.members, SAFE_NOTES)
           new == ObjGet(response.json.members, SAFE_NOTES)
       IN /\ new.t = "array"
          /\ new.items # << >>
          /\ new.items[1] = JStr(DISCLOSURE)
          /\ old.t = "array" => Len(new.items) = Len(old.items) + 1

\* C8: when neither a string value nor a key of the resolved value holds a
\* listed keyword, the response is a success carrying exactly the resolved
\* value.
C8_CleanValueUntouched ==
  (/\ Resolved
   /\ \A t \in StringValues(resolved[1].parsed) \cup KeyStrings(resolved[1].parsed) :
        ~HoldsKeyword(t)) =>
    /\ response.kind = "json"
    /\ response.json = resolved[1].parsed

\* C9: once parseGeminiJson has returned a value, of any top-level type and
\* with any string contents, the request ends with a success response:
\* nothing is thrown after the resolution.
C9_RedactionNeverFails ==
  Resolved =>
    /\ thrown = << >>
    /\ response.kind = "json"
    /\ response.status = 200

\* The body carries no snapshot: it is null, or its system_text is absent,
\* null or another empty value.
SnapshotMissing(b) ==
  \/ b.kind = "null"
  \/ b.kind = "object" /\ b.system_text.kind \in {"undefined", "null"}
  \/ b.kind = "object" /\ b.system_text.kind = "number" /\ b.system_text.n = 0

\* The body fails validation: no snapshot, a blank one, or too large.
ValidationFailure(b) ==
  \/ SnapshotMissing(b)
  \/ b.kind = "object" /\ b.system_text.kind = "string" /\
     (\/ \A i \in 1..Len(b.system_text.runs) : b.system_text.runs[i].ch \in WhiteSpaceChars
      \/ CombinedLength(b) > MAX_TOTAL_CHARS)

\* C10: with an API key, a finished request has status 400 exactly when its
\* body fails validation (so whenever system_text is missing), status 500
\* when a backend call or the resolution failed, and a success carries the
\* result.
C10_StatusClasses ==
  (KeyConfigured /\ pc = "done") =>
    /\ response.status = 400 <=> ValidationFailure(body)
    /\ SnapshotMissing(body) => response.status = 400
    /\ (thrown # << >> /\ calls # << >>) => response.status = 500
    /\ response.status = 200 <=> response.kind = "json"

\* The answers of the backend with a non-success status.
FailureResponses == { r \in BackendResponses : r.kind = "failure" }

\* "Gemini API error: <status> <body>", the message for a non-success answer.
BackendErrorMessage(r) ==
  << "Gemini API error: " >> \o NumToChars(r.status) \o << " " >> \o r.text

\* C11: a step in which a call gets a non-success answer ends the request
\* without another call: after the primary call exactly one call was made,
\* after the repair call exactly two; the response has status 500 and its
\* details are the backend's status and body.
C11_BackendFailureEndsRequest ==
  [][\A r \in FailureResponses :
       /\ PrimaryReturns(r) =>
            /\ Len(calls') = 1
            /\ calls' = calls
            /\ initialText' = << >>
            /\ pc' = "done"
            /\ response'.kind = "error"
            /\ response'.status = 500
            /\ response'.details = << BackendErrorMessage(r) >>
       /\ RepairReturns(r) =>
            /\ Len(calls') = 2
            /\ calls' = calls
            /\ repairText' = << >>
            /\ pc' = "done"
            /\ response'.kind = "error"
            /\ response'.status = 500
            /\ response'.details = << BackendErrorMessage(r) >>]_vars

C11_Witness ==
  /\ pc = "done"
  /\ Len(calls) = 1
  /\ initialText = << >>
  /\ thrown # << >>
  /\ thrown[1].at = "callGemini"
  /\ \E r \in FailureResponses : response.details = << BackendErrorMessage(r) >>

\* The status and the summary of a response: what tells one class of
\* PipelineError from another.
ErrorClass(resp) == << resp.status, resp.error >>

\* C12: when the fetch of a call fails, the response is an error that
\* differs in status or summary from the response to any non-success answer
\* of the backend.
C12_TransportErrorDistinct ==
  (pc = "done" /\ thrown # << >> /\ thrown[1].at = "fetch") =>
    /\ response.kind = "error"
    /\ \A r \in FailureResponses :
         ErrorClass(response) # ErrorClass(CaughtResponse(BackendErrorMessage(r)))

\* C13: when neither the primary nor the repair text parses, details and
\* raw_output of the response are the repair text, or the primary text when
\* the repair text is empty.
C13_SchemaErrorPayload ==
  (/\ initialText # << >>
   /\ ~JSONParse(initialText[1]).ok
   /\ repairText # << >>
   /\ ~JSONParse(repairText[1]).ok) =>
    LET payload == IF repairText[1] # << >> THEN repairText[1] ELSE initialText[1]
    IN /\ response.kind = "error"
       /\ response.details = << payload >>
       /\ response.raw_output = << payload >>

C13_Witness ==
  /\ pc = "done"
  /\ repairText = << << >> >>
  /\ initialText # << >>
  /\ initialText[1] # << >>
  /\ response.raw_output = initialText

\* The combined length of every text field of the body, what_if included.
TotalTextLength(b) == CombinedLength(b) + FieldLength(b.what_if)

\* C14: once a call has been made, the text fields of the request, what_if
\* included, are together at most 25,000 characters long, and system_text
\* is text that is not blank.
C14_ValidatedRequestBounded ==
  calls # << >> =>
    /\ body.kind = "object"
    /\ body.system_text.kind = "string"
    /\ ~BlankSnapshot
    /\ TotalTextLength(body) <= MAX_TOTAL_CHARS

\* C15: a request has no response before it is over and exactly one when it
\* is over, an AnalysisResult (status 200) or a PipelineError; whatever was
\* thrown ends in a PipelineError with status 500, never in a success; the
\* response is never replaced; and every request comes to its response.
C15_OneOutcome ==
  /\ [](pc # "done" => response = NoResponse)
  /\ [](pc = "done" =>
          /\ response.kind \in {"json", "error"}
          /\ response.kind = "json" => (response.status = 200 /\ thrown = << >>)
          /\ response.kind = "error" => response.status \in {400, 500}
          /\ thrown # << >> => (response.kind = "error" /\ response.status = 500))
  /\ [][pc = "done" => (pc' = "done" /\ response' = response)]_vars
  /\ <>(pc = "done")

C15_Witness ==
  /\ pc = "done"
  /\ Len(calls) = 2
  /\ thrown # << >>
  /\ thrown[1].at = "response.json"
  /\ response.kind = "error"

\* The texts extracted from the answers to the calls of the request.
ModelTexts ==
  { initialText[i] : i \in 1..Len(initialText) } \cup
  { repairText[i] : i \in 1..Len(repairText) }

\* C16: the raw_output of an error response, when there is one, is a text
\* extracted from an answer to a call of the request; a request that
\* extracted no text has no raw_output.
C16_RawOutputIsModelText ==
  (pc = "done" /\ response.kind = "error") =>
    /\ \A i \in 1..Len(response.raw_output) : response.raw_output[i] \in ModelTexts
    /\ ModelTexts = { } => response.raw_output = << >>

\* The length of attack_paths is at most 2 and the steps of each path are
\* numbered 1, 2, ... in their order.
AttackPathsInvariant(v) ==
  /\ v.t = "object"
  /\ LET paths == ObjGet(v.members, ATTACK_PATHS)
     IN paths.t = "array" =>
          /\ Len(paths.items) <= 2
          /\ \A p \in 1..Len(paths.items) :
               paths.items[p].t = "object" =>
                 LET steps == ObjGet(paths.items[p].members, STEPS)
                 IN steps.t = "array" =>
                      \A n \in 1..Len(steps.items) :
                        /\ steps.items[n].t = "object"
                        /\ ObjGet(steps.items[n].members, STEP) = JNum(n)

\* C17: the result of every success response that carries attack_paths has
\* at most two of them, each with steps numbered consecutively from 1.
C17_ResultInvariant ==
  (pc = "done" /\ response.kind = "json" /\ response.json.t = "object" /\
   HasKey(response.json.members, ATTACK_PATHS)) =>
    AttackPathsInvariant(response.json)

\* The calls that have been answered: each answer left its text, or the
\* error callGemini threw.
Answered ==
  Len(initialText) + Len(repairText) +
  (IF thrown # << >> /\ thrown[1].at \in {"fetch", "callGemini", "response.json"}
   THEN 1 ELSE 0)

\* The calls that are issued and not yet answered.
Outstanding == Len(calls) - Answered

\* C18: at most one call is outstanding at any time; the first call is the
\* primary call; a second call is there only after the primary call's text
\* was extracted and failed to parse, and it is the repair call whose text
\* to repair is exactly that text.
C18_SequentialCalls ==
  /\ Outstanding \in {0, 1}
  /\ calls # << >> => calls[1].kind = "primary"
  /\ Len(calls) >= 2 =>
       /\ initialText # << >>
       /\ ~JSONParse(initialText[1]).ok
       /\ calls[2].kind = "repair"
       /\ calls[2].toRepair = initialText[1]

C18_Witness ==
  /\ pc = "repair"
  /\ Len(calls) = 2
  /\ Outstanding = 1
  /\ initialText[1] # << >>
  /\ calls[2].toRepair = initialText[1]

\* The response POST gives to a request served alone, from the API key, the
\* body and the answers to the request's own calls.
SoloResponse(key, b, answers) ==
  IF KeyMissing(key)
  THEN ErrorResponse(500, "Missing GEMINI_API_KEY environment variable.")
  ELSE IF Validate(b).next # "pass" THEN Validate(b).response
  ELSE IF answers = << >> THEN NoResponse
  ELSE IF callGemini(answers[1]) # << >>
  THEN CaughtResponse(callGemini(answers[1])[1].message)
  ELSE IF FirstParseSucceeds(extractText(answers[1]))
  THEN Respond(JSONParse(extractText(answers[1])).v).response
  ELSE IF Len(answers) < 2 THEN NoResponse
  ELSE IF callGemini(answers[2]) # << >>
  THEN CaughtResponse(callGemini(answers[2])[1].message)
  ELSE IF RepairParseSucceeds(extractText(answers[2]))
  THEN Respond(JSONParse(extractText(answers[2])).v).response
  ELSE CaughtResponse(SchemaErrorMessage(extractText(answers[2]),
                                         extractText(answers[1])))

\* C19: with two requests interleaved at their backend calls, the response
\* of each finished request is the one it gets when served alone with the
\* same API key, body and answers to its own calls, and a step of one
\* request changes nothing of the other.
C19_NoInterference ==
  /\ [](\A i \in RequestIds :
          requests[i].pc = "done" =>
            requests[i].response =
              SoloResponse(apiKey, requests[i].body, requests[i].answers))
  /\ [][\A i \in RequestIds :
          requests'[i].pc = requests[i].pc => requests'[i] = requests[i]]_vars

C19_Witness ==
  /\ \A i \in RequestIds :
       /\ requests[i].pc = "done"
       /\ Len(requests[i].answers) = 2
       /\ requests[i].thrown # << >>
       /\ requests[i].thrown[1].at = "parseGeminiJson"
       /\ scopes[i].repairText = << << >> >>
  /\ scopes[1].initialText # scopes[2].initialText
  /\ requests[1].response.raw_output = scopes[1].initialText
  /\ requests[2].response.raw_output = scopes[2].initialText

RECURSIVE SameShape(_, _)
\* Two JSON values differ in the contents of string values at most: the
\* same types, keys in the same order, array lengths, numbers, booleans
\* and nulls.
SameShape(a, b) ==
  IF a.t # b.t THEN FALSE
  ELSE CASE a.t = "string" -> TRUE
         [] a.t = "array" ->
              /\ Len(a.items) = Len(b.items)
              /\ \A i \in 1..Len(a.items) : SameShape(a.items[i], b.items[i])
         [] a.t = "object" ->
              /\ Len(a.members) = Len(b.members)
              /\ \A i \in 1..Len(a.members) :
                   /\ a.members[i].k = b.members[i].k
                   /\ SameShape(a.members[i].v, b.members[i].v)
         [] OTHER -> a = b

\* A value without the safe_notes of its top level.
WithoutSafeNotes(v) ==
  IF v.t = "object"
  THEN JObj(SelectSeq(v.members, LAMBDA m : m.k # SAFE_NOTES))
  ELSE v

\* C20: safe_notes aside, the result of a success response has the keys,
\* the array lengths and the non-string values of the resolved value; only
\* the contents of string values differ.
C20_OnlyStringContentsChange ==
  (Resolved /\ response.kind = "json") =>
    SameShape(WithoutSafeNotes(resolved[1].parsed), WithoutSafeNotes(response.json))

RECURSIVE NoNewKeywordFrom(_, _)
\* The loop of sanitizeOutput from keyword k on, holding the text before:
\* each replacement removes its keyword and leaves the text without a
\* keyword it did not hold.
NoNewKeywordFrom(k, before) ==
  IF k > Len(EXPLOIT_KEYWORDS) THEN TRUE
  ELSE IF ~RegexTest(EXPLOIT_KEYWORDS[k], before)
       THEN NoNewKeywordFrom(k + 1, before)
       ELSE LET after == RegexReplace(EXPLOIT_KEYWORDS[k], before)
            IN /\ ~RegexTest(EXPLOIT_KEYWORDS[k], after)
               /\ \A w \in Keywords : HoldsWord(after, w) => HoldsWord(before, w)
               /\ NoNewKeywordFrom(k + 1, after)

\* The serialized response body: NextResponse.json serializes without a gap.
SerializedBody == Stringify(response.json, 0, 0)

\* C21: the serialized value of a success response holds no listed keyword
\* in any letter case; in the loop over the keywords, a replacement leaves
\* the text without a keyword it did not hold before, the keywords the loop
\* has passed included; and the disclosure note holds none.
C21_RedactionComplete ==
  /\ ~HoldsKeyword(DISCLOSURE)
  /\ (pc = "done" /\ response.kind = "json") => ~HoldsKeyword(SerializedBody)
  /\ Resolved => NoNewKeywordFrom(1, JSONStringify(resolved[1].parsed))

\* A keyword between the two halves of an earlier one is redacted and the
\* halves stay apart; a keyword that ends where another begins is redacted.
C21_Witness ==
  /\ pc = "done"
  /\ response.kind = "json"
  /\ resolved # << >>
  /\ resolved[1].parsed =
       Finding(<< "p", "a", "y" >> \o EXPLOIT_KEYWORDS[5] \o << "l", "o", "a", "d" >>)
  /\ response.json =
       JObj(<< Member(MITIGATIONS,
                      JArr(<< JStr(<< "p", "a", "y" >> \o REDACTED \o
                                   << "l", "o", "a", "d" >>) >>)),
               Member(SAFE_NOTES, JArr(<< JStr(DISCLOSURE) >>)) >>)

\* C22: in the page, at most one runAnalysis invocation is out at any time;
\* while one is out, from its start to the handling of its outcome, loading
\* is true and the Analyze button and the what-if buttons are disabled; when
\* none is out, after any outcome, loading is false.
C22_OneRequestInFlight ==
  /\ Len(invocations) <= 1
  /\ invocations # << >> => (loading /\ isAnalyzeDisabled)
  /\ invocations = << >> => ~loading

\* A second request is out, after the first one's analysis arrived, with a
\* snapshot in the form.
C22_Witness ==
  /\ Len(invocations) = 1
  /\ invocations[1].pc = "json"
  /\ analysis # << >>
  /\ RunsLength(TrimRuns(systemText.runs)) > 0
  /\ loading

\* The "Latest what-if" label is rendered: with an analysis and a what-if.
LabelDisplayed == analysis # << >> /\ lastWhatIf # << >>

\* C23: whenever the page displays an analysis with the "Latest what-if"
\* label, the label is the what_if of the request the analysis answers.
C23_LabelMatchesAnalysis ==
  LabelDisplayed => lastWhatIf = analysis[1].what_if

====
